---- MODULE Spec2Model ----
(***************************************************************************)
(* A model of music_essentials: Interval (interval.py) and Chord           *)
(* (chord.py).  Python strings that the code takes apart (interval         *)
(* strings, sizes given as text) are sequences of one-character strings;   *)
(* Python values of several possible types are tagged records.             *)
(***************************************************************************)
EXTENDS Integers, Sequences, FiniteSets, TLC

VARIABLES notes, supplied, chordRaised, built, call, ret, self, out

chordVars == <<notes, supplied, chordRaised, built>>
intervalVars == <<call, ret, self, out>>
vars == <<notes, supplied, chordRaised, built, call, ret, self, out>>

\* ---------------------------------------------------------------- bounds
MaxNotes == 4
MaxSize == 22

\* ------------------------------------------------ text and Python values
Digits == <<"0", "1", "2", "3", "4", "5", "6", "7", "8", "9">>

IsDigit(c) == \E d \in 1..10 : Digits[d] = c

DigitVal(c) == (CHOOSE d \in 1..10 : Digits[d] = c) - 1

RECURSIVE NatToStr(_)
NatToStr(n) == IF n < 10 THEN <<Digits[n + 1]>>
               ELSE NatToStr(n \div 10) \o <<Digits[(n % 10) + 1]>>

\* str() of a Python int
IntToStr(n) == IF n < 0 THEN <<"-">> \o NatToStr(0 - n) ELSE NatToStr(n)

RECURSIVE DigitsToNat(_)
DigitsToNat(s) == IF s = <<>> THEN 0
                  ELSE 10 * DigitsToNat(SubSeq(s, 1, Len(s) - 1)) + DigitVal(s[Len(s)])

AllDigits(s) == s # <<>> /\ \A i \in 1..Len(s) : IsDigit(s[i])

PyStr(s) == [ty |-> "str", s |-> s, n |-> 0, f |-> 0]
PyInt(n) == [ty |-> "int", s |-> <<>>, n |-> n, f |-> 0]
\* the float n.f, n >= 0 and f one decimal digit
PyFloat(n, f) == [ty |-> "float", s |-> <<>>, n |-> n, f |-> f]

\* str(v)
PyStrOf(v) == CASE v.ty = "str" -> v.s
                [] v.ty = "int" -> IntToStr(v.n)
                [] v.ty = "float" -> IntToStr(v.n) \o <<".">> \o <<Digits[v.f + 1]>>

\* int(v): an optional sign and decimal digits for text, truncation for a float
PyIntOf(v) ==
    CASE v.ty = "int" -> [ok |-> TRUE, val |-> v.n]
      [] v.ty = "float" -> [ok |-> TRUE, val |-> v.n]
      [] v.ty = "str" ->
           LET signed == v.s # <<>> /\ v.s[1] \in {"-", "+"}
               body == IF signed THEN Tail(v.s) ELSE v.s
           IN IF AllDigits(body)
              THEN [ok |-> TRUE,
                    val |-> IF signed /\ v.s[1] = "-" THEN 0 - DigitsToNat(body)
                            ELSE DigitsToNat(body)]
              ELSE [ok |-> FALSE, val |-> 0]

\* sub in s
Contains(s, sub) == \E i \in 1..(Len(s) - Len(sub) + 1) :
                        SubSeq(s, i, i + Len(sub) - 1) = sub

\* s.startswith(p)
StartsWith(s, p) == Len(s) >= Len(p) /\ SubSeq(s, 1, Len(p)) = p

\* s.replace(old, ''): every non-overlapping occurrence, left to right
RECURSIVE Replace(_, _)
Replace(s, old) == IF s = <<>> THEN <<>>
                   ELSE IF StartsWith(s, old)
                        THEN Replace(SubSeq(s, Len(old) + 1, Len(s)), old)
                        ELSE <<s[1]>> \o Replace(Tail(s), old)

\* ------------------------------------------------------------- Interval
NAMED_INTERVAL_TYPES == << <<"M">>, <<"m">>, <<"P">>, <<"d", "i", "m">>, <<"a", "u", "g">> >>

VALID_INTERVAL_TYPES ==
    { <<"d","i","m","1">>, <<"P","1">>, <<"a","u","g","1">>,
      <<"d","i","m","2">>, <<"m","2">>, <<"a","u","g","2">>, <<"M","2">>,
      <<"d","i","m","3">>, <<"m","3">>, <<"M","3">>, <<"a","u","g","3">>,
      <<"d","i","m","4">>, <<"P","4">>, <<"a","u","g","4">>,
      <<"d","i","m","5">>, <<"P","5">>, <<"a","u","g","5">>,
      <<"d","i","m","6">>, <<"m","6">>, <<"M","6">>, <<"a","u","g","6">>,
      <<"d","i","m","7">>, <<"m","7">>, <<"M","7">>, <<"a","u","g","7">> }

NamedTypes == { NAMED_INTERVAL_TYPES[i] : i \in 1..Len(NAMED_INTERVAL_TYPES) }

Raise(kind, msg) == [raised |-> kind, msg |-> msg, interval_type |-> <<>>, size |-> 0]

NoInterval == Raise("none", "no call")

RECURSIVE ReduceLoopStrict(_)
ReduceLoopStrict(base_size) ==
    IF base_size > 8 THEN ReduceLoopStrict(base_size - 7) ELSE base_size

\* the while loop of the constructor
RECURSIVE ReduceLoop(_)
ReduceLoop(base_size) == IF base_size >= 8 THEN ReduceLoop(base_size - 7) ELSE base_size

\* the text appended to the type before the table lookup
BaseSizeStr(size) == IF PyIntOf(size).val >= 8
                     THEN IntToStr(ReduceLoop(PyIntOf(size).val - 7))
                     ELSE PyStrOf(size)

Interval_init_unchecked(interval_type, size) ==
    IF interval_type.ty # "str" THEN Raise("TypeError", "type not a string")
    ELSE IF interval_type.s \notin NamedTypes THEN Raise("ValueError", "unsupported type")
    ELSE IF ~PyIntOf(size).ok THEN Raise("TypeError", "not an integer")
    ELSE IF Contains(PyStrOf(size), <<".">>) THEN Raise("TypeError", "not an integer")
    ELSE IF PyIntOf(size).val <= 0 THEN Raise("ValueError", "not positive")
    ELSE [raised |-> "none", msg |-> "", interval_type |-> interval_type.s,
          size |-> PyIntOf(size).val]

\* Interval.__init__(interval_type, size)
Interval_init(interval_type, size) ==
    IF interval_type.ty # "str" THEN Raise("TypeError", "type not a string")
    ELSE IF interval_type.s \notin NamedTypes THEN Raise("ValueError", "unsupported type")
    ELSE IF ~PyIntOf(size).ok THEN Raise("TypeError", "not an integer")
    ELSE IF Contains(PyStrOf(size), <<".">>) THEN Raise("TypeError", "not an integer")
    ELSE IF PyIntOf(size).val <= 0 THEN Raise("ValueError", "not positive")
    ELSE IF (interval_type.s \o BaseSizeStr(size)) \notin VALID_INTERVAL_TYPES
         THEN Raise("ValueError", "impossible interval")
    ELSE [raised |-> "none", msg |-> "", interval_type |-> interval_type.s,
          size |-> PyIntOf(size).val]

\* the size text handed to the constructor once prefix i has matched
SizeText(interval_string, i) == Replace(interval_string, i)

RECURSIVE FromLoop(_, _)
FromLoop(interval_string, k) ==
    IF k > Len(NAMED_INTERVAL_TYPES) THEN Raise("ValueError", "invalid interval string")
    ELSE IF StartsWith(interval_string, NAMED_INTERVAL_TYPES[k])
         THEN Interval_init(PyStr(NAMED_INTERVAL_TYPES[k]),
                            PyStr(SizeText(interval_string, NAMED_INTERVAL_TYPES[k])))
         ELSE FromLoop(interval_string, k + 1)

\* Interval.from_interval_string(interval_string)
from_interval_string(interval_string) ==
    IF interval_string.ty # "str" THEN Raise("TypeError", "not a string")
    ELSE FromLoop(interval_string.s, 1)

Interval_str_base(i) == i.interval_type \o IntToStr(ReduceLoop(i.size))

\* Interval.__str__
Interval_str(i) == i.interval_type \o IntToStr(i.size)

\* ------------------------------------------------- Interval: the calls
Chars(t) == CASE t = "dim" -> <<"d", "i", "m">>
              [] t = "aug" -> <<"a", "u", "g">>
              [] t = "asd" -> <<"a", "s", "d">>
              [] t = "butts" -> <<"b", "u", "t", "t", "s">>
              [] t = "-5" -> <<"-", "5">>
              [] t = "-1" -> <<"-", "1">>
              [] t = "5.5" -> <<"5", ".", "5">>
              [] t = "07" -> <<"0", "7">>
              [] t = "" -> <<>>
              [] OTHER -> <<t>>

TypeInputs == { PyStr(Chars(t)) : t \in {"M", "m", "P", "dim", "aug", "asd", "i"} }
                  \cup {PyInt(5)}

SizeInputs == { PyInt(n) : n \in (0 - 5)..MaxSize }
                  \cup { PyFloat(5, 5), PyFloat(5, 0) }
                  \cup { PyStr(Chars(t)) : t \in {"7", "butts", "5.5", "-5", "07", ""} }
                  \cup { PyStr(IntToStr(n)) : n \in {8, 13} }

Heads == { Chars(t) : t \in {"M", "m", "P", "dim", "aug", "asd", "i", ""} }
Mids == { Chars(t) : t \in {"", "m", "M", "P"} }
Bodies == { IntToStr(n) : n \in 0..MaxSize }
             \cup { Chars(t) : t \in {"butts", "5.5", "-5", "-1", "07", ""} }
Tails == { Chars(t) : t \in {"", "M", "P", "m", "dim"} }

Tokens == { h \o m \o b \o t : h \in Heads, m \in Mids, b \in Bodies, t \in Tails }

NoArg == PyStr(<<>>)

Calls == { [fn |-> "init", a1 |-> t, a2 |-> z, done |-> FALSE] :
               t \in TypeInputs, z \in SizeInputs }
           \cup { [fn |-> "parse", a1 |-> PyStr(k), a2 |-> NoArg, done |-> FALSE] :
               k \in Tokens }
           \cup { [fn |-> "parse", a1 |-> PyInt(5), a2 |-> NoArg, done |-> FALSE] }

\* i = Interval(interval_type, size)
Construct ==
    /\ call.fn = "init" /\ ~call.done
    /\ ret' = Interval_init(call.a1, call.a2)
    /\ call' = [call EXCEPT !.done = TRUE]
    /\ UNCHANGED <<self, out>>
    /\ UNCHANGED chordVars

\* i = Interval.from_interval_string(interval_string)
Parse ==
    /\ call.fn = "parse" /\ ~call.done
    /\ ret' = from_interval_string(call.a1)
    /\ call' = [call EXCEPT !.done = TRUE]
    /\ UNCHANGED <<self, out>>
    /\ UNCHANGED chordVars

\* text = str(i), for the interval the last call returned
Str ==
    /\ call.done /\ ret.raised = "none" /\ out = <<>>
    /\ self' = ret
    /\ out' = Interval_str(ret)
    /\ UNCHANGED <<call, ret>>
    /\ UNCHANGED chordVars

\* j = Interval.from_interval_string(text)
Reparse ==
    /\ out # <<>> /\ call.fn # "reparse"
    /\ call' = [fn |-> "reparse", a1 |-> PyStr(out), a2 |-> NoArg, done |-> TRUE]
    /\ ret' = from_interval_string(PyStr(out))
    /\ UNCHANGED <<self, out>>
    /\ UNCHANGED chordVars

InitInterval ==
    /\ call \in Calls
    /\ ret = NoInterval
    /\ self = NoInterval
    /\ out = <<>>

NextInterval == Construct \/ Parse \/ Str \/ Reparse

\* ----------------------------------------------------------------- Note
\* A Note is a pitch letter, an octave and an accidental; obj stands for the
\* identity of the Python object (0 for a value not yet handed to a Chord).
Letters == <<"C", "D", "E", "F", "G", "A", "B">>

LetterIdx(p) == (CHOOSE i \in 1..7 : Letters[i] = p) - 1

NaturalSemitones == <<0, 2, 4, 5, 7, 9, 11>>

OctaveSemitones == 12

AccidentalOffset(a) == CASE a = "#" -> 1 [] a = "b" -> 0 - 1 [] OTHER -> 0

Note(pitch, octave, accidental) ==
    [pitch |-> pitch, octave |-> octave, accidental |-> accidental, obj |-> 0]

NotANote == [pitch |-> "5.5", octave |-> 0, accidental |-> "", obj |-> 0]

\* isinstance(v, Note)
IsNote(v) == \E i \in 1..7 : Letters[i] = v.pitch

NoteValue(n) == OctaveSemitones * n.octave + NaturalSemitones[LetterIdx(n.pitch) + 1]
                    + AccidentalOffset(n.accidental)

NoteLt(a, b) == NoteValue(a) < NoteValue(b)

NoteGe(a, b) == NoteValue(a) >= NoteValue(b)

\* Note.__str__: letter, octave, accidental ("A4b")
NoteStr(n) == <<n.pitch>> \o IntToStr(n.octave)
                  \o (IF n.accidental = "" THEN <<>> ELSE <<n.accidental>>)

WithObj(n, k) == [n EXCEPT !.obj = k]

Plain(n) == [n EXCEPT !.obj = 0]

\* ---------------------------------------------------------------- Chord
\* list.insert(i, x), i a 0-based position in 0..len
InsertAt(list, i, x) == SubSeq(list, 1, i) \o <<x>> \o SubSeq(list, i + 1, Len(list))

\* Chord.__init__(root_note)
Chord_init(root_note) == <<root_note>>

root_last(ns) == ns[Len(ns)]

\* Chord.root
root(ns) == ns[1]

RECURSIVE AddNoteScanBefore(_, _, _)
AddNoteScanBefore(ns, new_note, i) ==
    IF i >= Len(ns) - 1 THEN Append(ns, new_note)
    ELSE IF NoteGe(new_note, ns[i + 1]) /\ NoteLt(new_note, ns[i + 2])
         THEN InsertAt(ns, i, new_note)
         ELSE AddNoteScanBefore(ns, new_note, i + 1)

RECURSIVE AddNoteScanTie(_, _, _)
AddNoteScanTie(ns, new_note, i) ==
    IF i >= Len(ns) - 1 THEN Append(ns, new_note)
    ELSE IF NoteGe(new_note, ns[i + 1]) /\ ~NoteLt(ns[i + 2], new_note)
         THEN InsertAt(ns, i + 1, new_note)
         ELSE AddNoteScanTie(ns, new_note, i + 1)

\* the for loop of add_note, from 0-based index i
RECURSIVE AddNoteScan(_, _, _)
AddNoteScan(ns, new_note, i) ==
    IF i >= Len(ns) - 1 THEN Append(ns, new_note)
    ELSE IF NoteGe(new_note, ns[i + 1]) /\ NoteLt(new_note, ns[i + 2])
         THEN InsertAt(ns, i + 1, new_note)
         ELSE AddNoteScan(ns, new_note, i + 1)

add_note_no_root_case(ns, new_note) == AddNoteScan(ns, new_note, 0)

\* Chord.add_note(new_note), new_note a Note
add_note(ns, new_note) ==
    IF NoteLt(new_note, root(ns)) THEN InsertAt(ns, 0, new_note)
    ELSE AddNoteScan(ns, new_note, 0)

\* Chord.__str__
RECURSIVE ChordStrLoop(_, _)
ChordStrLoop(ns, k) == IF k > Len(ns) THEN <<>>
                       ELSE NoteStr(ns[k]) \o <<"+">> \o ChordStrLoop(ns, k + 1)

Chord_str(ns) == LET o == ChordStrLoop(ns, 1) IN SubSeq(o, 1, Len(o) - 1)

\* ---------------------------------------------------------------- Scale
MajorSteps == <<2, 2, 1, 2, 2, 2, 1>>
MinorSteps == <<2, 1, 2, 2, 1, 2, 2>>

RECURSIVE SumSteps(_, _)
SumSteps(steps, k) == IF k = 0 THEN 0 ELSE steps[k] + SumSteps(steps, k - 1)

AccidentalOf(d) == CASE d = 1 -> "#" [] d = 0 - 1 -> "b" [] OTHER -> ""

\* degree k (0-based) of the scale on tonic: the k-th next letter, spelled
\* with the accidental that gives the step pattern's pitch
ScaleDegree(tonic, steps, k) ==
    LET li == LetterIdx(tonic.pitch) + k
        oct == tonic.octave + (li \div 7)
        nat == OctaveSemitones * oct + NaturalSemitones[(li % 7) + 1]
        target == NoteValue(tonic) + SumSteps(steps, k)
    IN Note(Letters[(li % 7) + 1], oct, AccidentalOf(target - nat))

\* Scale.build_scale(tonic_key, scale_type): 8 notes, the last the octave of the first
build_scale(tonic_key, scale_type) ==
    LET steps == IF scale_type \in {"major", "maj"} THEN MajorSteps ELSE MinorSteps
    IN [k \in 1..8 |-> ScaleDegree(tonic_key, steps, k - 1)]

\* ---------------------------------------------------------- build_chord
MAJOR == <<2, 4>>
MINOR == <<2, 4>>

ChordTypes == {"major", "maj", "minor", "min"}

CHORD_PATTERNS(t) == IF t \in {"major", "maj"} THEN MAJOR ELSE MINOR

ChordNumbers == <<"I", "II", "III", "IV", "V", "VI", "VII", "VIII">>

CHORD_NUM_SCALE_INDEX(c) == (CHOOSE i \in 1..8 : ChordNumbers[i] = c) - 1

IsChordNumber(c) == \E i \in 1..8 : ChordNumbers[i] = c

NextIdxLen(root_idx, index_diff, len) ==
    IF root_idx + index_diff > len - 1
    THEN [idx |-> root_idx + index_diff - len, octave_diff |-> 1]
    ELSE [idx |-> root_idx + index_diff, octave_diff |-> 0]

\* the index and octave shift of one chord tone
NextIdx(root_idx, index_diff, len) ==
    IF root_idx + index_diff > len - 1
    THEN [idx |-> root_idx + index_diff - (len - 1), octave_diff |-> 1]
    ELSE [idx |-> root_idx + index_diff, octave_diff |-> 0]

\* s[i] for a Python list: a negative index counts from the end
PyIndexOk(s, i) == i >= 0 - Len(s) /\ i <= Len(s) - 1

PyIndex(s, i) == IF i >= 0 THEN s[i + 1] ELSE s[Len(s) + i + 1]

NoBuild == [raised |-> "none", s |-> <<>>, chord_number |-> "", chord_type |-> "",
            reads |-> <<>>, notes |-> <<>>]

\* the for loop of build_chord, from the k-th entry of the pattern
RECURSIVE BuildLoop(_, _, _)
BuildLoop(b, root_idx, k) ==
    IF k > Len(CHORD_PATTERNS(b.chord_type)) THEN b
    ELSE LET nx == NextIdx(root_idx, CHORD_PATTERNS(b.chord_type)[k], Len(b.s))
         IN IF ~PyIndexOk(b.s, nx.idx)
            THEN [b EXCEPT !.raised = "IndexError", !.reads = Append(@, nx.idx)]
            ELSE LET next_note == PyIndex(b.s, nx.idx)
                     made == WithObj(Note(next_note.pitch, next_note.octave + nx.octave_diff,
                                          next_note.accidental), Len(b.notes) + 1)
                 IN BuildLoop([b EXCEPT !.reads = Append(@, nx.idx),
                                        !.notes = add_note(@, made)],
                              root_idx, k + 1)

\* Chord.build_chord(tonic_key, chord_number, chord_type)
build_chord(tonic_key, chord_number, chord_type) ==
    IF ~IsNote(tonic_key) THEN [NoBuild EXCEPT !.raised = "TypeError"]
    ELSE IF ~IsChordNumber(chord_number) THEN [NoBuild EXCEPT !.raised = "ValueError"]
    ELSE IF chord_type \notin ChordTypes THEN [NoBuild EXCEPT !.raised = "ValueError"]
    ELSE LET s == build_scale(tonic_key, chord_type)
             root_idx == CHORD_NUM_SCALE_INDEX(chord_number)
         IN BuildLoop([raised |-> "none", s |-> s, chord_number |-> chord_number,
                       chord_type |-> chord_type, reads |-> <<root_idx>>,
                       notes |-> Chord_init(WithObj(s[root_idx + 1], 1))],
                      root_idx, 1)

\* ---------------------------------------------------- Chord: the calls
C4 == Note("C", 4, "")
NoteInputs == { C4, Note("D", 4, ""), Note("E", 4, ""), Note("F", 4, "b"),
                Note("G", 4, ""), NotANote }

Tonics == { C4, Note("G", 4, ""), Note("A", 4, "") }

ChordNumberInputs == { ChordNumbers[i] : i \in 1..8 } \cup {"IX"}

ChordTypeInputs == ChordTypes \cup {"dorian"}

\* c.add_note(new_note)
AddNote ==
    /\ Len(supplied) < MaxNotes
    /\ \E new_note \in NoteInputs :
         IF ~IsNote(new_note)
         THEN /\ chordRaised' = "TypeError"
              /\ UNCHANGED <<notes, supplied>>
         ELSE /\ notes' = add_note(notes, WithObj(new_note, Len(supplied) + 1))
              /\ supplied' = Append(supplied, new_note)
              /\ chordRaised' = "none"
    /\ UNCHANGED built
    /\ UNCHANGED intervalVars

\* c = Chord.build_chord(tonic_key, chord_number, chord_type)
\* (a class method: it starts a new chord, here in place of the seeded one)
BuildChord ==
    /\ built = NoBuild
    /\ Len(supplied) = 1
    /\ \E tonic_key \in Tonics \cup {NotANote}, chord_number \in ChordNumberInputs,
          chord_type \in ChordTypeInputs :
         LET b == build_chord(tonic_key, chord_number, chord_type)
         IN /\ built' = b
            /\ chordRaised' = b.raised
            /\ IF b.raised = "none"
               THEN /\ notes' = b.notes
                    /\ supplied' = [k \in 1..Len(b.notes) |->
                                      Plain(CHOOSE n \in {b.notes[j] : j \in 1..Len(b.notes)} :
                                                n.obj = k)]
               ELSE UNCHANGED <<notes, supplied>>
    /\ UNCHANGED intervalVars

IdleCall == [fn |-> "none", a1 |-> NoArg, a2 |-> NoArg, done |-> TRUE]

\* c = Chord(root_note)
InitChord ==
    /\ \E root_note \in NoteInputs :
         /\ IsNote(root_note)
         /\ notes = Chord_init(WithObj(root_note, 1))
         /\ supplied = <<root_note>>
    /\ chordRaised = "none"
    /\ built = NoBuild

NextChord == AddNote \/ BuildChord

Init == /\ InitChord
        /\ call = IdleCall /\ ret = NoInterval /\ self = NoInterval /\ out = <<>>

Next == NextChord

Spec == Init /\ [][Next]_vars

IInit == /\ InitInterval
         /\ notes = Chord_init(WithObj(C4, 1)) /\ supplied = <<C4>>
         /\ chordRaised = "none" /\ built = NoBuild

INext == NextInterval

SpecInterval == IInit /\ [][INext]_vars

\* =============================================================== claims
Value(n) == NoteValue(n)

SuppliedSet == { supplied[k] : k \in 1..Len(supplied) }

\* C1: after construction and any sequence of add_note calls the chord's notes
\* are non-decreasing in pitch: notes[i] <= notes[i+1] for every adjacent pair.
Thm_C1_NonDecreasing ==
    \A i \in 1..(Len(notes) - 1) : Value(notes[i]) <= Value(notes[i + 1])

\* a lower, an equal-pitch and a higher note were added after the seed
Wit_C1 ==
    /\ built = NoBuild /\ Len(supplied) = 4 /\ Len(notes) = 4
    /\ Value(supplied[2]) < Value(supplied[1])
    /\ Value(supplied[3]) = Value(supplied[1])
    /\ Value(supplied[4]) > Value(supplied[1])

\* C2: the chord is never empty and root() has the minimum pitch over the seed
\* and all notes added so far.
Thm_C2_RootIsLowest ==
    /\ Len(notes) >= 1
    /\ Len(notes) = Len(supplied)
    /\ \A k \in 1..Len(supplied) : Value(root(notes)) <= Value(supplied[k])
    /\ \E k \in 1..Len(supplied) : Value(root(notes)) = Value(supplied[k])

\* a note lower than the seed was added, then a higher one
Wit_C2 ==
    /\ built = NoBuild /\ Len(supplied) >= 3
    /\ root(notes).obj = 2
    /\ Value(supplied[3]) > Value(supplied[2])

ScaleOk(s) ==
    /\ Len(s) = 8
    /\ \A i \in 1..7 : Value(s[i]) < Value(s[i + 1])
    /\ s[8] = [s[1] EXCEPT !.octave = @ + 1]

\* the scale note at 0-based position p, one octave up past the end of the scale
Ext(s, p) == IF p <= 7 THEN s[p + 1] ELSE [s[p - 7 + 1] EXCEPT !.octave = @ + 1]

BuiltPlain == [k \in 1..Len(built.notes) |-> Plain(built.notes[k])]

\* C3: for every degree I..VIII and every chord type of the pattern table, on an
\* 8-note ascending scale s ending on the octave of s[0], build_chord returns
\* exactly [s[r], ext(r+2), ext(r+4)], reads only scale indices 0..7, is in
\* ascending order, and its root() is s[r].
Thm_C3_BuildChord ==
    (built.s # <<>> /\ ScaleOk(built.s)) =>
        LET r == CHORD_NUM_SCALE_INDEX(built.chord_number)
        IN /\ built.raised = "none"
           /\ BuiltPlain = <<built.s[r + 1], Ext(built.s, r + 2), Ext(built.s, r + 4)>>
           /\ \A k \in 1..Len(built.reads) : built.reads[k] \in 0..7
           /\ \A i \in 1..2 : Value(built.notes[i]) < Value(built.notes[i + 1])
           /\ Plain(root(built.notes)) = built.s[r + 1]

\* tonic C4, 'V', 'major' gives G4+B4+D5
Wit_C3 ==
    /\ built.s # <<>> /\ ScaleOk(built.s)
    /\ built.s[1] = C4 /\ built.chord_number = "V" /\ built.chord_type = "major"
    /\ Chord_str(built.notes) = <<"G", "4", "+", "B", "4", "+", "D", "5">>

IsInitCall(t, n) ==
    /\ call.fn = "init" /\ call.done
    /\ call.a1 = PyStr(Chars(t)) /\ call.a2 = PyInt(n)

ParsedToken == call.fn = "parse" /\ call.done /\ call.a1.ty = "str"

\* C6: parsing fails when no type prefix starts the token, and when the text
\* after the leading prefix is not a size the constructor accepts ('P4P',
\* 'mm2', 'M3M' are rejected).
CE_C6_ExactShape ==
    ParsedToken =>
        /\ (\A p \in NamedTypes : ~StartsWith(call.a1.s, p)) => ret.raised # "none"
        /\ \A p \in NamedTypes :
              (/\ StartsWith(call.a1.s, p)
               /\ Interval_init(PyStr(p),
                      PyStr(SubSeq(call.a1.s, Len(p) + 1, Len(call.a1.s)))).raised # "none")
              => ret.raised # "none"

\* C7: for notes of pairwise distinct pitch, whatever the seed and the order of
\* the add_note calls, the chord is the ascending sequence of those notes and
\* formats as their ascending join (seed G4, add E4, D4: D4+E4+G4).
RECURSIVE AscendingOf(_)
AscendingOf(S) ==
    IF S = {} THEN <<>>
    ELSE LET m == CHOOSE x \in S : \A y \in S : Value(x) <= Value(y)
         IN <<m>> \o AscendingOf(S \ {m})

RECURSIVE JoinPlus(_)
JoinPlus(ns) == IF Len(ns) = 1 THEN NoteStr(ns[1])
                ELSE NoteStr(ns[1]) \o <<"+">> \o JoinPlus(Tail(ns))

DistinctPitches ==
    \A i, j \in 1..Len(supplied) : i # j => Value(supplied[i]) # Value(supplied[j])

Thm_C7_OrderIndependent ==
    DistinctPitches =>
        /\ [k \in 1..Len(notes) |-> Plain(notes[k])] = AscendingOf(SuppliedSet)
        /\ Chord_str(notes) = JoinPlus(AscendingOf(SuppliedSet))

Wit_C7 ==
    /\ supplied = <<Note("G", 4, ""), Note("E", 4, ""), Note("D", 4, "")>>
    /\ Chord_str(notes) = <<"D", "4", "+", "E", "4", "+", "G", "4">>

Size5Types == {"M", "m", "dim", "aug"}

CE_C9_SingleErrorKind ==
    (call.done /\ call.fn \in {"init", "parse"} /\ call.a1.ty = "str"
        /\ ret.raised # "none")
    => (ret.raised = "ValueError" /\ ret.interval_type = <<>>)

\* C10: add_note is stable for ties: a note equal in pitch to notes already in
\* the chord goes immediately after the last of them, so equal-pitch notes stay
\* in the order supplied; each call lengthens the chord by one and keeps the
\* earlier notes in their relative order.
AddNoteStep == Len(supplied') = Len(supplied) + 1 /\ built' = built

StableTies ==
    \A i, j \in 1..Len(notes) :
        (i < j /\ Value(notes[i]) = Value(notes[j])) => notes[i].obj < notes[j].obj

InsertedAfterEquals ==
    /\ Len(notes') = Len(notes) + 1
    /\ \E pos \in 1..Len(notes') :
         /\ notes'[pos].obj = Len(supplied')
         /\ Plain(notes'[pos]) = supplied'[Len(supplied')]
         /\ \A k \in 1..(pos - 1) : notes'[k] = notes[k]
         /\ \A k \in (pos + 1)..Len(notes') : notes'[k] = notes[k - 1]
         /\ \A k \in 1..Len(notes) :
               Value(notes[k]) = Value(notes'[pos]) => k < pos
         /\ (\E k \in 1..Len(notes) : Value(notes[k]) = Value(notes'[pos]))
               => Value(notes'[pos - 1]) = Value(notes'[pos])

Thm_C10_StableInsert == [](StableTies) /\ [][AddNoteStep => InsertedAfterEquals]_vars

\* the newest note follows two earlier notes of its pitch and precedes a higher one
Wit_C10 ==
    /\ built = NoBuild /\ Len(notes) = 4
    /\ notes[3].obj = 4
    /\ Value(notes[1]) = Value(notes[3]) /\ Value(notes[2]) = Value(notes[3])
    /\ Value(notes[4]) > Value(notes[3])

====
